---- MODULE Spec2Model ----
(***************************************************************************)
(* A model of egui-glyphon (src/src/lib.rs) and of the update path of its  *)
(* documented example (src/examples/hello-world.rs).                       *)
(*                                                                         *)
(*  - measure_buffer and BufferWithTextArea::new are pure functions; they  *)
(*    are operators, applied by the actions of SpecPure to inputs drawn    *)
(*    from bounded sets.  f32 values are modelled as integers.             *)
(*  - GlyphonRenderer::insert and the prepare / paint callbacks are a      *)
(*    state machine over the per-context callback resource tables, the     *)
(*    font-system mutexes and the buffers' read/write locks.  One render   *)
(*    thread per GPU render context steps through the callback's code one  *)
(*    lock operation at a time; one application thread runs the example's  *)
(*    update block.                                                        *)
(***************************************************************************)
EXTENDS Integers, Sequences, FiniteSets

\* ------------------------------------------------------------------ bounds

MaxBatch == 2       \* buffers in one GlyphonRendererCallback
MaxInserts == 2     \* GlyphonRenderer::insert calls in one run
MaxMetrics == 1     \* font sizes the application shapes a buffer with: 0..MaxMetrics
MaxRuns == 2        \* layout runs of a measured buffer
MaxLineW == 3       \* line widths 0..MaxLineW, maximum sizes 0..MaxLineW+1
MaxLineHeight == 2  \* line heights 1..MaxLineHeight
MaxPpi == 3         \* pixels per point 1..MaxPpi
MaxCoord == 1       \* rectangle edges -MaxCoord..MaxCoord

\* ------------------------------------------------------------------ universe

Contexts == {"c1", "c2"}        \* GPU render contexts, each with its render thread
FontSystems == {"f1", "f2"}     \* Arc<Mutex<FontSystem>> handles
Buffers == {"b1", "b2"}         \* Arc<RwLock<Buffer>> handles

Min(a, b) == IF a <= b THEN a ELSE b
Max(a, b) == IF a >= b THEN a ELSE b

\* Option<T>: None is <<>>, Some(x) is <<x>>
None == <<>>
Some(x) == <<x>>
unwrap_or(opt, d) == IF opt = None THEN d ELSE opt[1]

SeqsUpTo(S, n) == UNION {[1..k -> S] : k \in 0..n}

VARIABLES
    callback_resources, \* per context: the type-keyed resource table (a set of entries)
    next_id,            \* identity of the next GlyphonRenderer to be built
    last_insert,        \* per context: <<>> or <<[id, font_system]>> of the latest insert
    font_system,        \* per font system: the thread holding its mutex, or "free"
    buffer_data,        \* per buffer: its shaped contents
    rw_readers,         \* per buffer: read guards held, per render thread
    rw_writer,          \* per buffer: "free" or the thread holding the write guard
    pc,                 \* per render thread: position in prepare / paint
    self_buffers,       \* per render thread: self.buffers of the running callback
    glyphon_renderer,   \* per render thread: id of the looked-up renderer, 0 before
    bufrefs,            \* per render thread: the read guards collected so far
    text_areas,         \* per render thread: the TextArea descriptors built
    res,                \* per render thread: the renderer's Result, "none" before
    out,                \* per render thread: None, or Some(returned command buffers)
    app_pc,             \* application thread: position in update
    m_buffer,           \* input of measure_buffer
    m_rect,             \* None, or Some(rectangle measure_buffer returned)
    n_args,             \* inputs of BufferWithTextArea::new
    n_result            \* None, or Some(BufferWithTextArea constructed)

conc_vars == <<callback_resources, next_id, last_insert, font_system, buffer_data,
               rw_readers, rw_writer, pc, self_buffers, glyphon_renderer,
               bufrefs, text_areas, res, out, app_pc>>
pure_vars == <<m_buffer, m_rect, n_args, n_result>>
vars == <<conc_vars, pure_vars>>

\* ------------------------------------------------------------------ measure_buffer

\* buffer.layout_runs().fold((0.0, 0usize), ...), with the captured rtl flag
RECURSIVE fold_runs(_, _)
fold_runs(runs, acc) ==
    IF runs = <<>> THEN acc
    ELSE LET run == Head(runs)
         IN fold_runs(Tail(runs),
                      [width |-> Max(run.line_w, acc.width),
                       total_lines |-> acc.total_lines + 1,
                       rtl |-> IF run.rtl THEN TRUE ELSE acc.rtl])

\* Rect::from_min_size(min, size)
Rect_from_min_size(min, size) ==
    [min |-> min, max |-> [x |-> min.x + size.x, y |-> min.y + size.y]]

Pos2_ZERO == [x |-> 0, y |-> 0]

\* mutants of measure_buffer: the right-to-left rule dropped; the clamp to the
\* maximum width dropped; the line count off by one
measure_buffer_no_rtl(buffer) ==
    LET f == fold_runs(buffer.layout_runs, [width |-> 0, total_lines |-> 0, rtl |-> FALSE])
        height0 == f.total_lines * buffer.line_height
    IN Rect_from_min_size(Pos2_ZERO,
            [x |-> Min(f.width, unwrap_or(buffer.size.w, f.width)),
             y |-> Min(height0, unwrap_or(buffer.size.h, height0))])

measure_buffer_no_clamp(buffer) ==
    LET f == fold_runs(buffer.layout_runs, [width |-> 0, total_lines |-> 0, rtl |-> FALSE])
        height0 == f.total_lines * buffer.line_height
    IN Rect_from_min_size(Pos2_ZERO,
            [x |-> IF f.rtl THEN unwrap_or(buffer.size.w, f.width) ELSE f.width,
             y |-> Min(height0, unwrap_or(buffer.size.h, height0))])

measure_buffer_off_by_one(buffer) ==
    LET f == fold_runs(buffer.layout_runs, [width |-> 0, total_lines |-> 1, rtl |-> FALSE])
        height0 == f.total_lines * buffer.line_height
        max_width == unwrap_or(buffer.size.w, f.width)
    IN Rect_from_min_size(Pos2_ZERO,
            [x |-> IF f.rtl THEN max_width ELSE Min(f.width, max_width),
             y |-> Min(height0, unwrap_or(buffer.size.h, height0))])

measure_buffer(buffer) ==
    LET f == fold_runs(buffer.layout_runs, [width |-> 0, total_lines |-> 0, rtl |-> FALSE])
        height0 == f.total_lines * buffer.line_height
        max_width == unwrap_or(buffer.size.w, f.width)
        max_height == unwrap_or(buffer.size.h, height0)
        width == IF f.rtl THEN max_width ELSE Min(f.width, max_width)
        height == Min(height0, max_height)
    IN Rect_from_min_size(Pos2_ZERO, [x |-> width, y |-> height])

\* ------------------------------------------------------------------ BufferWithTextArea::new

\* mutant of Rect_mul: the size is scaled, the position is not
Rect_mul_size_only(rect, factor) ==
    [min |-> rect.min,
     max |-> [x |-> rect.min.x + (rect.max.x - rect.min.x) * factor,
              y |-> rect.min.y + (rect.max.y - rect.min.y) * factor]]

\* impl Mul<f32> for Rect
Rect_mul(rect, factor) ==
    [min |-> [x |-> rect.min.x * factor, y |-> rect.min.y * factor],
     max |-> [x |-> rect.max.x * factor, y |-> rect.max.y * factor]]

BufferWithTextArea_new(buffer, rect, opacity, default_color, pixels_per_point) ==
    LET ppi == pixels_per_point
    IN [buffer |-> buffer,
        rect |-> Rect_mul(rect, ppi),
        scale |-> ppi,
        opacity |-> opacity,
        default_color |-> default_color]

\* ------------------------------------------------------------------ inputs of the pure functions

Runs == [line_w : 0..MaxLineW, rtl : BOOLEAN]
MaxSizes == {None} \cup {Some(n) : n \in 0..(MaxLineW + 1)}
MeasuredBuffers ==
    [layout_runs : SeqsUpTo(Runs, MaxRuns),
     line_height : 1..MaxLineHeight,
     size : [w : MaxSizes, h : MaxSizes]]

Coords == (0 - MaxCoord)..MaxCoord
Rects == {r \in [min : [x : Coords, y : Coords], max : [x : Coords, y : Coords]] :
            r.min.x <= r.max.x /\ r.min.y <= r.max.y}
NewArgs == [buffer : Buffers, rect : Rects, opacity : {0, 1},
            default_color : {"white", "red"}, pixels_per_point : 1..MaxPpi]

NoBuffer == [layout_runs |-> <<>>, line_height |-> 1, size |-> [w |-> None, h |-> None]]
NoArgs == [buffer |-> "b1", rect |-> [min |-> Pos2_ZERO, max |-> Pos2_ZERO], opacity |-> 0,
           default_color |-> "white", pixels_per_point |-> 1]

\* ------------------------------------------------------------------ resource table, locks

\* mutant of TypeMap_insert: the prior instance of the type is kept
TypeMap_insert_keep(table, value) == table \cup {value}

\* callback_resources.insert(value): the table is keyed by type
TypeMap_insert(table, value) ==
    {e \in table : e.type # value.type} \cup {value}

\* callback_resources.get() / get_mut() for the type GlyphonRenderer
TypeMap_get(table) ==
    IF \E e \in table : e.type = "GlyphonRenderer"
    THEN Some(CHOOSE e \in table : e.type = "GlyphonRenderer")
    ELSE None

\* the entry a render thread's glyphon_renderer reference points to
Renderer(c) == CHOOSE e \in callback_resources[c] : e.id = glyphon_renderer[c]

\* a write through the &mut GlyphonRenderer to its atlas
WithAtlas(c, a) ==
    [callback_resources EXCEPT ![c] =
        {IF e.id = glyphon_renderer[c] THEN [e EXCEPT !.atlas = a] ELSE e : e \in @}]

\* RwLock::read succeeds when no write guard is held
CanRead(b) == rw_writer[b] = "free"

\* RwLock::write succeeds when no guard at all is held
CanWrite(b) == rw_writer[b] = "free" /\ \A c \in Contexts : rw_readers[b][c] = 0

RECURSIVE Count(_, _)
Count(s, x) ==
    IF s = <<>> THEN 0 ELSE (IF Head(s) = x THEN 1 ELSE 0) + Count(Tail(s), x)

\* dropping the Vec of read guards a render thread holds
DropGuards(c) ==
    [b \in Buffers |-> [rw_readers[b] EXCEPT ![c] = @ - Count(bufrefs[c], b)]]

\* ------------------------------------------------------------------ GlyphonRenderer::insert

GlyphonRenderer_insert(c, f) ==
    /\ pc[c] = "idle"
    /\ next_id <= MaxInserts
    /\ callback_resources' =
         [callback_resources EXCEPT ![c] =
            TypeMap_insert(@, [type |-> "GlyphonRenderer", id |-> next_id,
                               font_system |-> f, atlas |-> "new"])]
    /\ next_id' = next_id + 1
    /\ last_insert' = [last_insert EXCEPT ![c] = Some([id |-> next_id, font_system |-> f])]
    /\ UNCHANGED <<font_system, buffer_data, rw_readers, rw_writer, pc, self_buffers,
                   glyphon_renderer, bufrefs, text_areas, res, out,
                   app_pc, pure_vars>>

\* ------------------------------------------------------------------ GlyphonRendererCallback::prepare

BatchRect == [min |-> Pos2_ZERO, max |-> [x |-> 1, y |-> 1]]

\* the batches a host hands to prepare: BufferWithTextArea values built by new
Batches ==
    {[i \in DOMAIN s |-> BufferWithTextArea_new(s[i], BatchRect, 1, "white", 2)] :
        s \in SeqsUpTo(Buffers, MaxBatch)}

\* mutant of prepare_lookup: a missing renderer is replaced by a freshly built one
\* (get_mut().unwrap() written as an insert-if-absent)
prepare_lookup_or_default(c, batch) ==
    /\ pc[c] = "idle"
    /\ self_buffers' = [self_buffers EXCEPT ![c] = batch]
    /\ res' = [res EXCEPT ![c] = "none"]
    /\ out' = [out EXCEPT ![c] = None]
    /\ LET r == TypeMap_get(callback_resources[c])
       IN IF r = None
          THEN /\ callback_resources' =
                    [callback_resources EXCEPT ![c] =
                        TypeMap_insert(@, [type |-> "GlyphonRenderer", id |-> 0,
                                           font_system |-> "f1", atlas |-> "new"])]
               /\ glyphon_renderer' = [glyphon_renderer EXCEPT ![c] = 0]
          ELSE /\ UNCHANGED callback_resources
               /\ glyphon_renderer' = [glyphon_renderer EXCEPT ![c] = r[1].id]
    /\ pc' = [pc EXCEPT ![c] = "p_trim"]
    /\ UNCHANGED <<next_id, last_insert, font_system, buffer_data,
                   rw_readers, rw_writer, bufrefs, text_areas, app_pc, pure_vars>>

\* the host calls prepare(&self, ..) on a callback holding batch;
\* let glyphon_renderer: &mut GlyphonRenderer = resources.get_mut().unwrap();
prepare_lookup(c, batch) ==
    /\ pc[c] = "idle"
    /\ self_buffers' = [self_buffers EXCEPT ![c] = batch]
    /\ res' = [res EXCEPT ![c] = "none"]
    /\ out' = [out EXCEPT ![c] = None]
    /\ LET r == TypeMap_get(callback_resources[c])
       IN IF r = None
          THEN /\ pc' = [pc EXCEPT ![c] = "aborted"]
               /\ glyphon_renderer' = [glyphon_renderer EXCEPT ![c] = 0]
          ELSE /\ pc' = [pc EXCEPT ![c] = "p_trim"]
               /\ glyphon_renderer' = [glyphon_renderer EXCEPT ![c] = r[1].id]
    /\ UNCHANGED <<callback_resources, next_id, last_insert, font_system, buffer_data,
                   rw_readers, rw_writer, bufrefs, text_areas, app_pc, pure_vars>>

\* glyphon_renderer.atlas.trim();
prepare_trim(c) ==
    /\ pc[c] = "p_trim"
    /\ callback_resources' = WithAtlas(c, "trimmed")
    /\ pc' = [pc EXCEPT ![c] = IF self_buffers[c] = <<>> THEN "p_areas" ELSE "p_read"]
    /\ UNCHANGED <<next_id, last_insert, font_system, buffer_data,
                   rw_readers, rw_writer, self_buffers, glyphon_renderer, bufrefs,
                   text_areas, res, out, app_pc, pure_vars>>

\* mutant of prepare_read: the buffers are locked with write() instead of read()
prepare_read_exclusive(c) ==
    /\ pc[c] = "p_read"
    /\ LET i == Len(bufrefs[c]) + 1
           b == self_buffers[c][i].buffer
       IN /\ rw_writer[b] = "free" /\ \A d \in Contexts : rw_readers[b][d] = 0
          /\ rw_writer' = [rw_writer EXCEPT ![b] = c]
          /\ rw_readers' = [rw_readers EXCEPT ![b][c] = @ + 1]
          /\ bufrefs' = [bufrefs EXCEPT ![c] = Append(@, b)]
          /\ pc' = [pc EXCEPT ![c] = IF i = Len(self_buffers[c]) THEN "p_areas" ELSE "p_read"]
    /\ UNCHANGED <<callback_resources, next_id, last_insert, font_system, buffer_data,
                   self_buffers, glyphon_renderer, text_areas, res, out,
                   app_pc, pure_vars>>

\* self.buffers.iter().map(|b| b.buffer.read()).collect(): one read() per step
prepare_read(c) ==
    /\ pc[c] = "p_read"
    /\ LET i == Len(bufrefs[c]) + 1
           b == self_buffers[c][i].buffer
       IN /\ CanRead(b)
          /\ rw_readers' = [rw_readers EXCEPT ![b][c] = @ + 1]
          /\ bufrefs' = [bufrefs EXCEPT ![c] = Append(@, b)]
          /\ pc' = [pc EXCEPT ![c] = IF i = Len(self_buffers[c]) THEN "p_areas" ELSE "p_read"]
    /\ UNCHANGED <<callback_resources, next_id, last_insert, font_system, buffer_data,
                   rw_writer, self_buffers, glyphon_renderer, text_areas, res, out,
                   app_pc, pure_vars>>

\* TextArea { buffer: bufrefs.get(i).unwrap(), left, top, scale, bounds, default_color }
TextArea(refs, i, b) ==
    [buffer |-> refs[i],
     left |-> b.rect.min.x,
     top |-> b.rect.min.y,
     scale |-> b.scale,
     bounds |-> [left |-> b.rect.min.x, top |-> b.rect.min.y,
                 right |-> b.rect.max.x, bottom |-> b.rect.max.y],
     default_color |-> b.default_color]

\* self.buffers.iter().enumerate().map(|(i, b)| TextArea {..}).collect()
prepare_areas(c) ==
    /\ pc[c] = "p_areas"
    /\ text_areas' = [text_areas EXCEPT ![c] =
            [i \in 1..Len(self_buffers[c]) |-> TextArea(bufrefs[c], i, self_buffers[c][i])]]
    /\ pc' = [pc EXCEPT ![c] = "p_font_lock"]
    /\ UNCHANGED <<callback_resources, next_id, last_insert, font_system, buffer_data,
                   rw_readers, rw_writer, self_buffers, glyphon_renderer, bufrefs,
                   res, out, app_pc, pure_vars>>

\* GlyphonRenderer::prepare: self.viewport.update(..); self.font_system.lock()
renderer_prepare_lock(c) ==
    /\ pc[c] = "p_font_lock"
    /\ LET f == Renderer(c).font_system
       IN /\ font_system[f] = "free"
          /\ font_system' = [font_system EXCEPT ![f] = c]
    /\ pc' = [pc EXCEPT ![c] = "p_text_prepare"]
    /\ UNCHANGED <<callback_resources, next_id, last_insert, buffer_data,
                   rw_readers, rw_writer, self_buffers, glyphon_renderer, bufrefs,
                   text_areas, res, out, app_pc, pure_vars>>

\* GlyphonRenderer::prepare: self.text_renderer.prepare(..) -> Result<(), PrepareError>;
\* the mutex guard temporary is dropped as the Result is returned
renderer_prepare(c) ==
    /\ pc[c] = "p_text_prepare"
    /\ \E r \in {"Ok", "Err"} :
          /\ res' = [res EXCEPT ![c] = r]
          /\ callback_resources' = IF r = "Ok" THEN WithAtlas(c, "prepared")
                                   ELSE callback_resources
    /\ font_system' = [font_system EXCEPT ![Renderer(c).font_system] = "free"]
    /\ pc' = [pc EXCEPT ![c] = "p_unwrap"]
    /\ UNCHANGED <<next_id, last_insert, buffer_data,
                   rw_readers, rw_writer, self_buffers, glyphon_renderer, bufrefs,
                   text_areas, out, app_pc, pure_vars>>

\* mutant of prepare_unwrap: the PrepareError is swallowed and prepare returns
prepare_unwrap_swallow(c) ==
    /\ pc[c] = "p_unwrap"
    /\ pc' = [pc EXCEPT ![c] = "idle"]
    /\ out' = [out EXCEPT ![c] = Some(<<>>)]
    /\ rw_readers' = DropGuards(c)
    /\ bufrefs' = [bufrefs EXCEPT ![c] = <<>>]
    /\ text_areas' = [text_areas EXCEPT ![c] = <<>>]
    /\ self_buffers' = [self_buffers EXCEPT ![c] = <<>>]
    /\ UNCHANGED <<callback_resources, next_id, last_insert, font_system, buffer_data,
                   rw_writer, glyphon_renderer, res, app_pc, pure_vars>>

\* mutant of prepare_unwrap: the panic leaves the read guards locked
prepare_unwrap_leak(c) ==
    /\ pc[c] = "p_unwrap"
    /\ IF res[c] = "Err"
       THEN /\ pc' = [pc EXCEPT ![c] = "aborted"]
            /\ UNCHANGED <<out, rw_readers>>
       ELSE /\ pc' = [pc EXCEPT ![c] = "idle"]
            /\ out' = [out EXCEPT ![c] = Some(<<>>)]
            /\ rw_readers' = DropGuards(c)
    /\ bufrefs' = [bufrefs EXCEPT ![c] = <<>>]
    /\ text_areas' = [text_areas EXCEPT ![c] = <<>>]
    /\ self_buffers' = [self_buffers EXCEPT ![c] = <<>>]
    /\ UNCHANGED <<callback_resources, next_id, last_insert, font_system, buffer_data,
                   rw_writer, glyphon_renderer, res, app_pc, pure_vars>>

\* .unwrap() of the renderer's Result: on Err a panic unwinds; on Ok Vec::new() is
\* returned. Either way the locals (bufrefs) are dropped.
prepare_unwrap(c) ==
    /\ pc[c] = "p_unwrap"
    /\ IF res[c] = "Err"
       THEN /\ pc' = [pc EXCEPT ![c] = "aborted"]
            /\ UNCHANGED out
       ELSE /\ pc' = [pc EXCEPT ![c] = "idle"]
            /\ out' = [out EXCEPT ![c] = Some(<<>>)]
    /\ rw_readers' = DropGuards(c)
    /\ bufrefs' = [bufrefs EXCEPT ![c] = <<>>]
    /\ text_areas' = [text_areas EXCEPT ![c] = <<>>]
    /\ self_buffers' = [self_buffers EXCEPT ![c] = <<>>]
    /\ UNCHANGED <<callback_resources, next_id, last_insert, font_system, buffer_data,
                   rw_writer, glyphon_renderer, res, app_pc, pure_vars>>

\* ------------------------------------------------------------------ GlyphonRendererCallback::paint

\* the host calls paint(&self, info, render_pass, resources); render_pass.set_viewport(..);
\* let glyphon_renderer: &GlyphonRenderer = resources.get().unwrap();
paint_lookup(c) ==
    /\ pc[c] = "idle"
    /\ res' = [res EXCEPT ![c] = "none"]
    /\ out' = [out EXCEPT ![c] = None]
    /\ LET r == TypeMap_get(callback_resources[c])
       IN IF r = None
          THEN /\ pc' = [pc EXCEPT ![c] = "aborted"]
               /\ glyphon_renderer' = [glyphon_renderer EXCEPT ![c] = 0]
          ELSE /\ pc' = [pc EXCEPT ![c] = "t_render"]
               /\ glyphon_renderer' = [glyphon_renderer EXCEPT ![c] = r[1].id]
    /\ UNCHANGED <<callback_resources, next_id, last_insert, font_system, buffer_data,
                   rw_readers, rw_writer, self_buffers, bufrefs, text_areas,
                   app_pc, pure_vars>>

\* glyphon_renderer.render(render_pass).unwrap(): GlyphonRenderer::render returns
\* Result<(), RenderError>; on Err a panic unwinds, on Ok paint returns ()
paint_render(c) ==
    /\ pc[c] = "t_render"
    /\ \E r \in {"Ok", "Err"} :
          /\ res' = [res EXCEPT ![c] = r]
          /\ pc' = [pc EXCEPT ![c] = IF r = "Err" THEN "aborted" ELSE "idle"]
    /\ UNCHANGED <<callback_resources, next_id, last_insert, font_system, buffer_data,
                   rw_readers, rw_writer, self_buffers, glyphon_renderer, bufrefs,
                   text_areas, out, app_pc, pure_vars>>

\* ------------------------------------------------------------------ MyApp::update (the example)

\* MyApp's fields: font_system (the handle also given to insert) and buffer
self_font_system == "f1"
self_buffer == "b1"

app_unchanged == <<callback_resources, next_id, last_insert, pc, self_buffers,
                   glyphon_renderer, bufrefs, text_areas, res, out, rw_readers, pure_vars>>

\* update is entered
app_update ==
    /\ app_pc = "idle"
    /\ app_pc' = "a_font_lock"
    /\ UNCHANGED <<app_unchanged, font_system, buffer_data, rw_writer>>

\* let mut font_system = self.font_system.lock();
app_font_lock ==
    /\ app_pc = "a_font_lock"
    /\ font_system[self_font_system] = "free"
    /\ font_system' = [font_system EXCEPT ![self_font_system] = "app"]
    /\ app_pc' = "a_write"
    /\ UNCHANGED <<app_unchanged, buffer_data, rw_writer>>

\* let mut buffer = self.buffer.write();
app_write ==
    /\ app_pc = "a_write"
    /\ CanWrite(self_buffer)
    /\ rw_writer' = [rw_writer EXCEPT ![self_buffer] = "app"]
    /\ app_pc' = "a_shape"
    /\ UNCHANGED <<app_unchanged, font_system, buffer_data>>

\* buffer.set_metrics(..); buffer.set_size(..); buffer.shape_until_scroll(..)
app_shape ==
    /\ app_pc = "a_shape"
    /\ \E size \in 0..MaxMetrics :
          buffer_data' = [buffer_data EXCEPT ![self_buffer] = [shaped |-> size]]
    /\ app_pc' = "a_drop_buffer"
    /\ UNCHANGED <<app_unchanged, font_system, rw_writer>>

\* end of the block: buffer (declared last) is dropped first
app_drop_buffer ==
    /\ app_pc = "a_drop_buffer"
    /\ rw_writer' = [rw_writer EXCEPT ![self_buffer] = "free"]
    /\ app_pc' = "a_drop_font"
    /\ UNCHANGED <<app_unchanged, font_system, buffer_data>>

\* end of the block: font_system is dropped
app_drop_font ==
    /\ app_pc = "a_drop_font"
    /\ font_system' = [font_system EXCEPT ![self_font_system] = "free"]
    /\ app_pc' = "idle"
    /\ UNCHANGED <<app_unchanged, buffer_data, rw_writer>>

\* ------------------------------------------------------------------ the pure functions applied

Measure ==
    /\ m_rect = None
    /\ m_rect' = Some(measure_buffer(m_buffer))
    /\ UNCHANGED <<conc_vars, m_buffer, n_args, n_result>>

New ==
    /\ n_result = None
    /\ n_result' = Some(BufferWithTextArea_new(n_args.buffer, n_args.rect, n_args.opacity,
                                               n_args.default_color, n_args.pixels_per_point))
    /\ UNCHANGED <<conc_vars, m_buffer, m_rect, n_args>>

\* ------------------------------------------------------------------ specifications

ConcInit ==
    /\ callback_resources = [c \in Contexts |-> {}]
    /\ next_id = 1
    /\ last_insert = [c \in Contexts |-> None]
    /\ font_system = [f \in FontSystems |-> "free"]
    /\ buffer_data = [b \in Buffers |-> [shaped |-> 0]]
    /\ rw_readers = [b \in Buffers |-> [c \in Contexts |-> 0]]
    /\ rw_writer = [b \in Buffers |-> "free"]
    /\ pc = [c \in Contexts |-> "idle"]
    /\ self_buffers = [c \in Contexts |-> <<>>]
    /\ glyphon_renderer = [c \in Contexts |-> 0]
    /\ bufrefs = [c \in Contexts |-> <<>>]
    /\ text_areas = [c \in Contexts |-> <<>>]
    /\ res = [c \in Contexts |-> "none"]
    /\ out = [c \in Contexts |-> None]
    /\ app_pc = "idle"

Init ==
    /\ ConcInit
    /\ m_buffer = NoBuffer
    /\ m_rect = None
    /\ n_args = NoArgs
    /\ n_result = None

RenderNext ==
    \E c \in Contexts :
        \/ \E f \in FontSystems : GlyphonRenderer_insert(c, f)
        \/ \E batch \in Batches : prepare_lookup(c, batch)
        \/ prepare_trim(c)
        \/ prepare_read(c)
        \/ prepare_areas(c)
        \/ renderer_prepare_lock(c)
        \/ renderer_prepare(c)
        \/ prepare_unwrap(c)
        \/ paint_lookup(c)
        \/ paint_render(c)

AppNext ==
    \/ app_update
    \/ app_font_lock
    \/ app_write
    \/ app_shape
    \/ app_drop_buffer
    \/ app_drop_font

Next == RenderNext \/ AppNext

\* render threads and the application thread
Spec == Init /\ [][Next]_vars

\* render threads only: no thread writes a buffer
SpecRender == Init /\ [][RenderNext]_vars

MeasureInit ==
    /\ ConcInit
    /\ m_buffer \in MeasuredBuffers
    /\ m_rect = None
    /\ n_args = NoArgs
    /\ n_result = None

\* measure_buffer on every buffer of the bounded set
SpecMeasure == MeasureInit /\ [][Measure]_vars

NewInit ==
    /\ ConcInit
    /\ m_buffer = NoBuffer
    /\ m_rect = None
    /\ n_args \in NewArgs
    /\ n_result = None

\* BufferWithTextArea::new on every argument list of the bounded set
SpecNew == NewInit /\ [][New]_vars

\* ------------------------------------------------------------------ properties

InCallback(c) == pc[c] \notin {"idle", "aborted"}

\* the GlyphonRenderer entries of a context's table
Renderers(c) == {e \in callback_resources[c] : e.type = "GlyphonRenderer"}

\* C1: a prepare or paint run on a context for which insert never ran aborts at the
\* lookup: the thread is never found past the lookup, no renderer appears in the
\* table and no call has produced a result; a call that is past the lookup works on
\* the renderer the latest insert for that context put into the table.
C1_LookupWithoutInsertAborts ==
    \A c \in Contexts :
        /\ last_insert[c] = None =>
              /\ ~InCallback(c)
              /\ callback_resources[c] = {}
              /\ glyphon_renderer[c] = 0
              /\ res[c] = "none"
              /\ out[c] = None
        /\ InCallback(c) =>
              /\ last_insert[c] # None
              /\ \E e \in Renderers(c) : e.id = glyphon_renderer[c]
              /\ glyphon_renderer[c] = last_insert[c][1].id

\* C1 witness: one context's callback aborted with no insert ever run for it, while
\* another context's callback, run after an insert, is past its lookup.
C1_Witness ==
    \E c, d \in Contexts :
        /\ pc[c] = "aborted" /\ last_insert[c] = None
        /\ pc[d] = "p_trim" /\ last_insert[d] # None

\* the blocking call a render thread is about to make cannot proceed
RenderBlocked(c) ==
    \/ pc[c] = "p_read" /\ ~CanRead(self_buffers[c][Len(bufrefs[c]) + 1].buffer)
    \/ pc[c] = "p_font_lock" /\ font_system[Renderer(c).font_system] # "free"

\* C2: with render threads only, a render thread about to read-lock a buffer is never
\* blocked (also while another render thread holds a read guard on that buffer); a
\* render thread waiting for the font-system mutex waits for a render thread that is
\* itself not blocked, so no set of prepare calls is deadlocked; and no buffer's
\* shaped contents change.
C2_SharedReadsDoNotBlock ==
    /\ \A c \in Contexts :
          /\ pc[c] = "p_read" => ~RenderBlocked(c)
          /\ pc[c] = "p_font_lock" /\ RenderBlocked(c) =>
                \E d \in Contexts \ {c} :
                    /\ font_system[Renderer(c).font_system] = d
                    /\ pc[d] = "p_text_prepare"
    /\ \A f \in FontSystems : font_system[f] \in Contexts => pc[font_system[f]] = "p_text_prepare"
    /\ \A b \in Buffers : buffer_data[b] = [shaped |-> 0]

\* C2 witness: two render threads hold read guards on the same buffer at once, one
\* inside the renderer's prepare and the other waiting for the same font system.
C2_Witness ==
    \E c, d \in Contexts, b \in Buffers :
        /\ c # d
        /\ rw_readers[b][c] > 0 /\ rw_readers[b][d] > 0
        /\ pc[c] = "p_text_prepare" /\ pc[d] = "p_font_lock"
        /\ Renderer(c).font_system = Renderer(d).font_system

\* the set of line widths of a buffer's runs, and the largest (0 without runs)
LineWidths(buffer) == {buffer.layout_runs[i].line_w : i \in DOMAIN buffer.layout_runs}
NaturalWidth(buffer) ==
    IF LineWidths(buffer) = {} THEN 0
    ELSE CHOOSE w \in LineWidths(buffer) : \A v \in LineWidths(buffer) : v <= w
HasRtl(buffer) == \E i \in DOMAIN buffer.layout_runs : buffer.layout_runs[i].rtl
Width(rect) == rect.max.x - rect.min.x
Height(rect) == rect.max.y - rect.min.y

\* C3 as stated: for every buffer with a right-to-left run, the measured width equals
\* the buffer's configured maximum width.
C3_RtlWidthIsConfiguredMax ==
    m_rect # None /\ HasRtl(m_buffer) =>
        /\ m_buffer.size.w # None
        /\ Width(m_rect[1]) = m_buffer.size.w[1]

\* C3 amended: for every buffer with a right-to-left run, the measured width equals
\* the configured maximum width when one is configured, whatever the natural width,
\* and the natural width when none is configured.
C3_RtlWidthIsMaxOrNatural ==
    m_rect # None /\ HasRtl(m_buffer) =>
        Width(m_rect[1]) = IF m_buffer.size.w = None THEN NaturalWidth(m_buffer)
                           ELSE m_buffer.size.w[1]

\* C3 witness: a measured buffer with a right-to-left run whose natural width is
\* smaller than its configured maximum width.
C3_Witness ==
    /\ m_rect # None /\ HasRtl(m_buffer)
    /\ m_buffer.size.w # None
    /\ NaturalWidth(m_buffer) < m_buffer.size.w[1]
    /\ NaturalWidth(m_buffer) > 0

\* C4: for every buffer without a right-to-left run, the measured width is the
\* minimum of the natural width and the configured maximum width (so at most the
\* maximum), and the natural width when no maximum width is configured.
C4_LtrWidthIsClamped ==
    m_rect # None /\ ~HasRtl(m_buffer) =>
        IF m_buffer.size.w = None
        THEN Width(m_rect[1]) = NaturalWidth(m_buffer)
        ELSE /\ Width(m_rect[1]) = Min(NaturalWidth(m_buffer), m_buffer.size.w[1])
             /\ Width(m_rect[1]) <= m_buffer.size.w[1]

\* C4 witness: a measured buffer without right-to-left runs whose natural width
\* exceeds its configured maximum width.
C4_Witness ==
    /\ m_rect # None /\ ~HasRtl(m_buffer)
    /\ m_buffer.size.w # None
    /\ NaturalWidth(m_buffer) > m_buffer.size.w[1]

\* C5: for every buffer with no configured maximum size and N runs of line height H,
\* the measured rectangle has its minimum corner at the origin and height N * H.
C5_HeightIsLinesTimesLineHeight ==
    m_rect # None /\ m_buffer.size.w = None /\ m_buffer.size.h = None =>
        /\ m_rect[1].min = [x |-> 0, y |-> 0]
        /\ m_rect[1].max.y = Len(m_buffer.layout_runs) * m_buffer.line_height

\* C5 witness: a measured buffer with no maximum size, several runs and a line height
\* above one.
C5_Witness ==
    /\ m_rect # None /\ m_buffer.size.w = None /\ m_buffer.size.h = None
    /\ Len(m_buffer.layout_runs) > 1
    /\ m_buffer.line_height > 1

\* C6: the constructed BufferWithTextArea holds the given rectangle with each of its
\* four edges multiplied by the pixels-per-point ratio, scale equal to that ratio, and
\* the given buffer handle, opacity and default color.
C6_RectScaledByPixelsPerPoint ==
    n_result # None =>
        LET r == n_result[1]
            P == n_args.pixels_per_point
        IN /\ r.rect.min.x = n_args.rect.min.x * P
           /\ r.rect.min.y = n_args.rect.min.y * P
           /\ r.rect.max.x = n_args.rect.max.x * P
           /\ r.rect.max.y = n_args.rect.max.y * P
           /\ r.scale = P
           /\ r.buffer = n_args.buffer
           /\ r.opacity = n_args.opacity
           /\ r.default_color = n_args.default_color

\* C6 witness: a BufferWithTextArea constructed from a rectangle away from the origin
\* with a pixels-per-point ratio above one.
C6_Witness ==
    /\ n_result # None
    /\ n_args.pixels_per_point > 1
    /\ n_args.rect.min.x # 0 /\ n_args.rect.min.y # 0
    /\ n_args.rect.max.x > n_args.rect.min.x

\* C7: a context's table holds at most one GlyphonRenderer, none before the first
\* insert and afterwards the one the latest insert built (prepare and paint neither
\* add nor remove one), and the font system a prepare locks is the latest insert's.
C7_OneRendererLatestInsert ==
    \A c \in Contexts :
        /\ Cardinality(Renderers(c)) <= 1
        /\ {[id |-> e.id, font_system |-> e.font_system] : e \in Renderers(c)}
              = (IF last_insert[c] = None THEN {} ELSE {last_insert[c][1]})
        /\ \A f \in FontSystems :
              font_system[f] = c => last_insert[c] # None /\ f = last_insert[c][1].font_system

\* C7 witness: a context on which insert ran twice with different font systems, whose
\* prepare holds the mutex of the second one.
C7_Witness ==
    \E c \in Contexts :
        /\ last_insert[c] # None /\ last_insert[c][1].id = 2
        /\ \A d \in Contexts \ {c} : last_insert[d] = None
        /\ last_insert[c][1].font_system # self_font_system
        /\ font_system[last_insert[c][1].font_system] = c

\* C8: a callback whose renderer returned an error never returns: the thread is at the
\* unwrap or aborted; a prepare that returned had Ok from the renderer and returned
\* an empty list of command buffers.
C8_ErrorsAbortTheCallback ==
    \A c \in Contexts :
        /\ res[c] = "Err" => pc[c] \in {"p_unwrap", "aborted"}
        /\ out[c] # None => res[c] = "Ok" /\ out[c] = Some(<<>>) /\ pc[c] = "idle"
        /\ pc[c] = "idle" => res[c] \in {"none", "Ok"}

\* C8 witness: one prepare aborted on a PrepareError (its atlas trimmed, nothing
\* prepared) while another context's prepare returned the empty list.
C8_Witness ==
    \E c, d \in Contexts :
        /\ pc[c] = "aborted" /\ res[c] = "Err"
        /\ \E e \in Renderers(c) : e.atlas = "trimmed"
        /\ out[d] = Some(<<>>) /\ res[d] = "Ok"

\* C9: in prepare the atlas is trimmed before any read lock is taken; the guards held
\* are the read locks of the first buffers of the batch, in order; all k are held from
\* the building of the descriptors, through the renderer's prepare, until the unwrap;
\* the k descriptors refer to the k buffers in order; and outside a call (after a
\* return or an abort) the thread holds no read lock.
C9_LocksHeldForTheCall ==
    \A c \in Contexts :
        /\ pc[c] \in {"p_read", "p_areas", "p_font_lock", "p_text_prepare"} =>
              Renderer(c).atlas = "trimmed"
        /\ Len(bufrefs[c]) <= Len(self_buffers[c])
        /\ \A i \in 1..Len(bufrefs[c]) : bufrefs[c][i] = self_buffers[c][i].buffer
        /\ \A b \in Buffers : rw_readers[b][c] = Count(bufrefs[c], b)
        /\ bufrefs[c] # <<>> => pc[c] \in {"p_read", "p_areas", "p_font_lock",
                                           "p_text_prepare", "p_unwrap"}
        /\ pc[c] \in {"p_areas", "p_font_lock", "p_text_prepare", "p_unwrap"} =>
              Len(bufrefs[c]) = Len(self_buffers[c])
        /\ pc[c] \in {"p_font_lock", "p_text_prepare"} =>
              /\ Len(text_areas[c]) = Len(self_buffers[c])
              /\ \A i \in 1..Len(self_buffers[c]) :
                    /\ text_areas[c][i].buffer = self_buffers[c][i].buffer
                    /\ rw_readers[self_buffers[c][i].buffer][c] >= 1
        /\ ~InCallback(c) => \A b \in Buffers : rw_readers[b][c] = 0

\* C9 witness: the renderer's prepare runs on a batch of two different buffers, both
\* read-locked, while the other render thread has aborted and holds no lock.
C9_Witness ==
    \E c, d \in Contexts :
        /\ pc[c] = "p_text_prepare"
        /\ Len(self_buffers[c]) = 2
        /\ self_buffers[c][1].buffer # self_buffers[c][2].buffer
        /\ pc[d] = "aborted" /\ res[d] = "Err"
        /\ \E e \in Renderers(d) : e.atlas = "trimmed"

\* the application holds the font-system mutex and waits for the buffer's write lock;
\* a render thread holds a read guard on that buffer and waits for that mutex
Deadlocked ==
    /\ app_pc = "a_write"
    /\ \E c \in Contexts :
          /\ rw_readers[self_buffer][c] > 0
          /\ pc[c] = "p_font_lock"
          /\ Renderer(c).font_system = self_font_system
          /\ font_system[self_font_system] = "app"

\* C10 as stated: with the application's update and a prepare on the same buffer and
\* font system running concurrently, no deadlock state is reachable.
C10_NoDeadlock == ~Deadlocked

====
